---- MODULE Spec2Model ----
(***************************************************************************)
(* Model of the s3fcp download pipeline (src/src/downloader.rs):           *)
(* download -> download_chunked / download_single_stream, with the three   *)
(* stages queue_chunks, download_worker and ordered_output_writer running  *)
(* as tokio tasks that communicate over two bounded flume channels.        *)
(*                                                                         *)
(* Bytes are modelled by their offset in the object: the byte at offset i  *)
(* is the value i, so get_range(start, end) returns <<start, ..., end>>.   *)
(* The sink records the data of the write_all calls that completed.        *)
(***************************************************************************)
EXTENDS Integers, Sequences, FiniteSets

\* ---------------------------------------------------------------- bounds
MaxContentLength == 4
MaxChunkSize == 2
MaxConcurrency == 2
\* inputs of the chunk planner when it is checked on its own
PlanMaxLength == 12
PlanMaxChunkSize == 6
\* object length (in chunks of one byte) of the runs with many chunks
ReorderLength == 6
\* inputs of the runs in which get_range may return another length
LenientMax == 2

\* ------------------------------------------------------ program constants
\* ExponentialBuilder::with_max_times(3): the backoff yields 3 delays
max_times == 3

VARIABLES
  content_length,   \* ObjectMetadata.content_length reported by head()
  supports_range,   \* ObjectMetadata.supports_range reported by head()
  chunk_size,       \* DownloadArgs.chunk_size
  concurrency,      \* DownloadArgs.concurrency
  exact_ranges,     \* the DownloadClient returns exactly the requested range
  opc,              \* position of download / download_chunked / download_single_stream
  result,           \* what download returned ("none" while running)
  jidx,             \* index of the worker handle download_chunked is awaiting
  orch_chunk_rx,    \* download_chunked still owns its chunk_rx
  orch_output_tx,   \* download_chunked still owns its output_tx
  chunks,           \* the Vec<Chunk> planned by create_chunks
  qpc,              \* queue_chunks task: "idle", "run", "ok", "err"
  qidx,             \* position of queue_chunks in its for loop (1-based)
  chunkQ,           \* contents of the chunk channel
  outQ,             \* contents of the output channel
  wpc,              \* download_worker tasks: "recv", "fetch", "send", "ok", "err"
  wchunk,           \* the chunk a worker holds (NoChunk between loop iterations)
  wcalls,           \* get_range invocations made for the chunk the worker holds
  wdata,            \* the Bytes get_range returned for the chunk the worker holds
  werr,             \* the error a worker returned
  werrCall,         \* which get_range call (1, 2, ...) the returned error came from
  dequeued,         \* per chunk index, how often a worker received the chunk
  spc,              \* ordered_output_writer task: "idle", "recv", "drain", "flush", "ok", "err"
  buffer,           \* the writer's BTreeMap, as a set of DownloadedChunks
  next_expected,    \* the writer's cursor
  sink,             \* bytes written to the output sink
  retried,          \* some get_range call returned Err and was retried
  headCalls,        \* number of head() invocations
  getFullCalls,     \* number of get_full() invocations
  incrementCalls,   \* number of ProgressTracker::increment invocations
  position,         \* sum of the byte counts passed to increment (bar.inc)
  finishCalls       \* number of ProgressTracker::finish invocations

inputVars == <<content_length, supports_range, chunk_size, concurrency,
               exact_ranges>>
orchVars == <<opc, result, jidx, orch_chunk_rx, orch_output_tx>>
queueVars == <<qpc, qidx>>
workerVars == <<wpc, wchunk, wcalls, wdata, werr, werrCall, retried, dequeued>>
writerVars == <<spc, buffer, next_expected, sink>>
progressVars == <<incrementCalls, position, finishCalls>>
callVars == <<headCalls, getFullCalls, progressVars>>
vars == <<inputVars, orchVars, chunks, queueVars, chunkQ, outQ, workerVars,
          writerVars, callVars>>

Min(a, b) == IF a < b THEN a ELSE b

NoChunk == [index |-> -1, start |-> 0, end |-> -1]

\* the spawned download_worker tasks (download_handles)
Workers == DOMAIN wpc

\* ----------------------------------------------------------- chunk planner
\* mutant: the end of a chunk is one byte too far
chunk_end_exclusive(start, size, len) == Min(start + size, len - 1)

\* mutant: the end of a chunk is not clamped to the object
chunk_end_unclamped(start, size, len) == start + size - 1

\* (start + chunk_size as u64 - 1).min(content_length - 1)
chunk_end(start, size, len) == Min(start + size - 1, len - 1)

RECURSIVE create_chunks_loop(_, _, _, _, _)
create_chunks_loop(len, size, start, index, acc) ==
  IF start < len
    THEN LET end == chunk_end(start, size, len)
         IN create_chunks_loop(len, size, end + 1, index + 1,
                Append(acc, [index |-> index, start |-> start, end |-> end]))
    ELSE acc

create_chunks(len, size) == create_chunks_loop(len, size, 0, 0, <<>>)

total_chunks == Len(chunks)

\* ------------------------------------------------------- fetch capability
\* get_range(start, end) on success: the requested bytes of the object
get_range(start, end) == [i \in 1..(end - start + 1) |-> start + i - 1]

\* what Ok(Bytes) a DownloadClient may answer get_range(start, end) with:
\* the requested bytes, or a body one byte shorter or longer when the
\* server does not honour the range (neither client checks the length)
range_responses(start, end) ==
  IF exact_ranges
    THEN {get_range(start, end)}
    ELSE {get_range(start, end), get_range(start, end - 1),
          get_range(start, end + 1)}

\* get_full() on success: the whole object
get_full == [i \in 1..content_length |-> i - 1]

\* ------------------------------------------------------------ retry policy
\* mutant: the backoff allows a single retry
backoff_next_once(attempts) == attempts < 1

\* backon's backoff iterator: Some(delay) while attempts < max_times
backoff_next(attempts) == attempts < max_times

\* mutant: the chunk channel has room for one chunk more than there are workers
chunk_capacity_plus_one == concurrency + 1

\* ---------------------------------------------------------------- channels
chunk_capacity == concurrency
output_capacity == concurrency * 2

WorkerAlive(w) == wpc[w] \in {"recv", "fetch", "send"}

\* receivers of the chunk channel: download_chunked's chunk_rx and the clones
chunk_receivers == (IF orch_chunk_rx THEN 1 ELSE 0)
                   + Cardinality({w \in Workers : WorkerAlive(w)})
\* mutant: download_chunked keeps a clone of chunk_tx for as long as it runs
chunk_senders_with_clone ==
  (IF qpc = "run" THEN 1 ELSE 0) + (IF orch_chunk_rx THEN 1 ELSE 0)

\* senders of the chunk channel: the chunk_tx moved into queue_chunks
chunk_senders == IF qpc = "run" THEN 1 ELSE 0
\* senders of the output channel: download_chunked's output_tx and the clones
output_senders == (IF orch_output_tx THEN 1 ELSE 0)
                  + Cardinality({w \in Workers : WorkerAlive(w)})
\* receivers of the output channel: the output_rx moved into the writer
output_receivers == IF spc \in {"recv", "drain", "flush"} THEN 1 ELSE 0

\* -------------------------------------------------------------------- Init
\* the state before download is called, for inputs drawn from the given sets
InitOver(lengths, sizes, workers, ranges, exacts) ==
  /\ content_length \in lengths
  /\ supports_range \in ranges
  /\ exact_ranges \in exacts
  /\ chunk_size \in sizes
  /\ concurrency \in workers
  /\ opc = "head"
  /\ result = "none"
  /\ jidx = 0
  /\ orch_chunk_rx = FALSE
  /\ orch_output_tx = FALSE
  /\ chunks = <<>>
  /\ qpc = "idle"
  /\ qidx = 0
  /\ chunkQ = <<>>
  /\ outQ = <<>>
  /\ wpc = <<>>
  /\ wchunk = <<>>
  /\ wcalls = <<>>
  /\ wdata = <<>>
  /\ werr = <<>>
  /\ werrCall = <<>>
  /\ dequeued = <<>>
  /\ retried = FALSE
  /\ spc = "idle"
  /\ buffer = {}
  /\ next_expected = 0
  /\ sink = <<>>
  /\ headCalls = 0
  /\ getFullCalls = 0
  /\ incrementCalls = 0
  /\ position = 0
  /\ finishCalls = 0

Init ==
  InitOver(0..MaxContentLength, 1..MaxChunkSize, 1..MaxConcurrency, BOOLEAN,
           {TRUE})

\* ------------------------------------------------------------ orchestrator
\* mutant: the empty-file check is missing
empty_file_unchecked == FALSE

\* mutant: download ignores supports_range
strategy_always_chunked == "chunked"

\* if content_length == 0 { return Ok(writer); }
empty_file == content_length = 0

\* download: if metadata.supports_range { download_chunked } else { download_single_stream }
strategy == IF supports_range THEN "chunked" ELSE "single"

\* what download's caller sees once it returns: the locals are dropped
Return(r) ==
  /\ opc' = "done"
  /\ result' = r
  /\ orch_chunk_rx' = FALSE
  /\ orch_output_tx' = FALSE

\* mutant: a failed head() is attempted again instead of being returned
Download_head_retried ==
  /\ opc = "head"
  /\ headCalls' = headCalls + 1
  /\ \E ok \in BOOLEAN :
       IF ok
         THEN /\ opc' = strategy
              /\ UNCHANGED <<result, orch_chunk_rx, orch_output_tx>>
         ELSE UNCHANGED <<opc, result, orch_chunk_rx, orch_output_tx>>
  /\ UNCHANGED <<inputVars, jidx, chunks, queueVars, chunkQ, outQ, workerVars,
                 writerVars, getFullCalls, progressVars>>

\* download: client.head().await? and the choice of strategy
Download ==
  /\ opc = "head"
  /\ headCalls' = headCalls + 1
  /\ \E ok \in BOOLEAN :
       IF ok
         THEN /\ opc' = strategy
              /\ UNCHANGED <<result, orch_chunk_rx, orch_output_tx>>
         ELSE Return("HeadErr")
  /\ UNCHANGED <<inputVars, jidx, chunks, queueVars, chunkQ, outQ, workerVars,
                 writerVars, getFullCalls, progressVars>>

\* download_chunked up to the spawn of the three stages
StartChunked ==
  /\ opc = "chunked"
  /\ IF empty_file
       THEN /\ Return("Ok")
            /\ UNCHANGED <<jidx, chunks, queueVars, workerVars, writerVars>>
       ELSE /\ chunks' = create_chunks(content_length, chunk_size)
            /\ orch_chunk_rx' = TRUE
            /\ orch_output_tx' = TRUE
            /\ qpc' = "run"
            /\ qidx' = 1
            /\ wpc' = [w \in 1..concurrency |-> "recv"]
            /\ wchunk' = [w \in 1..concurrency |-> NoChunk]
            /\ wcalls' = [w \in 1..concurrency |-> 0]
            /\ wdata' = [w \in 1..concurrency |-> <<>>]
            /\ werr' = [w \in 1..concurrency |-> "none"]
            /\ werrCall' = [w \in 1..concurrency |-> 0]
            /\ dequeued' = [i \in 0..(Len(chunks') - 1) |-> 0]
            /\ spc' = "recv"
            /\ opc' = "join_queue"
            /\ UNCHANGED <<result, jidx, retried, buffer, next_expected, sink>>
  /\ UNCHANGED <<inputVars, chunkQ, outQ, callVars>>

\* queue_handle.await??
JoinQueue ==
  /\ opc = "join_queue"
  /\ qpc \in {"ok", "err"}
  /\ IF qpc = "err"
       THEN Return("QueueErr") /\ UNCHANGED jidx
       ELSE /\ opc' = "join_workers"
            /\ jidx' = 1
            /\ UNCHANGED <<result, orch_chunk_rx, orch_output_tx>>
  /\ UNCHANGED <<inputVars, chunks, queueVars, chunkQ, outQ, workerVars,
                 writerVars, callVars>>

\* mutant: handle.await? discards the Result the worker returned
worker_error_ignored(w) == FALSE

\* handle.await??: the joined worker returned Err
worker_failed(w) == wpc[w] = "err"

\* mutant: a failed writer's error is reported in place of the worker's
joined_error_writer_first(w) == IF spc = "err" THEN "IoErr" ELSE werr[w]

\* handle.await??: the error ? propagates from the joined worker
joined_error(w) == werr[w]

\* for handle in download_handles { handle.await??; } drop(output_tx);
JoinWorker ==
  /\ opc = "join_workers"
  /\ wpc[jidx] \in {"ok", "err"}
  /\ IF worker_failed(jidx)
       THEN Return(joined_error(jidx)) /\ UNCHANGED jidx
       ELSE IF jidx < concurrency
         THEN /\ jidx' = jidx + 1
              /\ UNCHANGED <<opc, result, orch_chunk_rx, orch_output_tx>>
         ELSE /\ opc' = "join_writer"
              /\ orch_output_tx' = FALSE
              /\ UNCHANGED <<result, jidx, orch_chunk_rx>>
  /\ UNCHANGED <<inputVars, chunks, queueVars, chunkQ, outQ, workerVars,
                 writerVars, callVars>>

\* output_handle.await??; progress.finish(); Ok(writer)
JoinWriter ==
  /\ opc = "join_writer"
  /\ spc \in {"ok", "err"}
  /\ Return(IF spc = "err" THEN "IoErr" ELSE "Ok")
  /\ finishCalls' = IF spc = "err" THEN finishCalls ELSE finishCalls + 1
  /\ UNCHANGED <<inputVars, jidx, chunks, queueVars, chunkQ, outQ, workerVars,
                 writerVars, headCalls, getFullCalls, incrementCalls, position>>

\* mutant: a failed get_full() is attempted again instead of being returned
GetFull_retried ==
  /\ opc = "single"
  /\ IF empty_file
       THEN Return("Ok") /\ UNCHANGED <<getFullCalls, incrementCalls, position>>
       ELSE /\ getFullCalls' = getFullCalls + 1
            /\ \E ok \in BOOLEAN :
                 IF ok
                   THEN /\ incrementCalls' = incrementCalls + 1
                        /\ position' = position + Len(get_full)
                        /\ opc' = "single_write"
                        /\ UNCHANGED <<result, orch_chunk_rx, orch_output_tx>>
                   ELSE UNCHANGED <<opc, result, orch_chunk_rx, orch_output_tx,
                                    incrementCalls, position>>
  /\ UNCHANGED <<inputVars, jidx, chunks, queueVars, chunkQ, outQ, workerVars,
                 writerVars, headCalls, finishCalls>>

\* download_single_stream: the empty-file return, or
\* client.get_full().await?; progress.increment(data.len() as u64);
GetFull ==
  /\ opc = "single"
  /\ IF empty_file
       THEN Return("Ok") /\ UNCHANGED <<getFullCalls, incrementCalls, position>>
       ELSE /\ getFullCalls' = getFullCalls + 1
            /\ \E ok \in BOOLEAN :
                 IF ok
                   THEN /\ incrementCalls' = incrementCalls + 1
                        /\ position' = position + Len(get_full)
                        /\ opc' = "single_write"
                        /\ UNCHANGED <<result, orch_chunk_rx, orch_output_tx>>
                   ELSE /\ Return("GetFullErr")
                        /\ UNCHANGED <<incrementCalls, position>>
  /\ UNCHANGED <<inputVars, jidx, chunks, queueVars, chunkQ, outQ, workerVars,
                 writerVars, headCalls, finishCalls>>

\* download_single_stream: writer.write_all(&data).await?
SingleWrite ==
  /\ opc = "single_write"
  /\ \E ok \in BOOLEAN :
       IF ok
         THEN /\ sink' = sink \o get_full
              /\ opc' = "single_flush"
              /\ UNCHANGED <<result, orch_chunk_rx, orch_output_tx>>
         ELSE Return("IoErr") /\ UNCHANGED sink
  /\ UNCHANGED <<inputVars, jidx, chunks, queueVars, chunkQ, outQ, workerVars,
                 spc, buffer, next_expected, callVars>>

\* download_single_stream: writer.flush().await?; progress.finish(); Ok(writer)
SingleFlush ==
  /\ opc = "single_flush"
  /\ \E ok \in BOOLEAN :
       /\ Return(IF ok THEN "Ok" ELSE "IoErr")
       /\ finishCalls' = IF ok THEN finishCalls + 1 ELSE finishCalls
  /\ UNCHANGED <<inputVars, jidx, chunks, queueVars, chunkQ, outQ, workerVars,
                 writerVars, headCalls, getFullCalls, incrementCalls, position>>

\* ------------------------------------------------------ Stage 1: queue_chunks
\* one tx.send_async(chunk).await of the for loop; Ok(()) after the last one
QueueChunks ==
  /\ qpc = "run"
  /\ IF qidx > Len(chunks)
       THEN /\ qpc' = "ok"
            /\ UNCHANGED <<qidx, chunkQ>>
       ELSE IF chunk_receivers = 0
         THEN /\ qpc' = "err"
              /\ UNCHANGED <<qidx, chunkQ>>
         ELSE /\ Len(chunkQ) < chunk_capacity
              /\ chunkQ' = Append(chunkQ, chunks[qidx])
              /\ qidx' = qidx + 1
              /\ qpc' = IF qidx = Len(chunks) THEN "ok" ELSE "run"
  /\ UNCHANGED <<inputVars, orchVars, chunks, outQ, workerVars, writerVars,
                 callVars>>

\* -------------------------------------------------- Stage 2: download_worker
\* mutant: the channel hands out its newest chunk
recv_chunk_last == chunkQ[Len(chunkQ)]

\* the chunk recv_async yields: the oldest in the channel (FIFO)
recv_chunk == Head(chunkQ)

\* mutant: receiving leaves the chunk in the channel
recv_rest_peek == chunkQ

\* what recv_async leaves in the channel: the received chunk is removed
recv_rest == Tail(chunkQ)

\* while let Ok(chunk) = rx.recv_async().await
WorkerRecv(w) ==
  /\ wpc[w] = "recv"
  /\ IF chunkQ # <<>>
       THEN /\ wchunk' = [wchunk EXCEPT ![w] = recv_chunk]
            /\ dequeued' = [dequeued EXCEPT ![recv_chunk.index] = @ + 1]
            /\ chunkQ' = recv_rest
            /\ wcalls' = [wcalls EXCEPT ![w] = 0]
            /\ wpc' = [wpc EXCEPT ![w] = "fetch"]
       ELSE /\ chunk_senders = 0
            /\ wpc' = [wpc EXCEPT ![w] = "ok"]
            /\ UNCHANGED <<wchunk, wcalls, chunkQ, dequeued>>
  /\ UNCHANGED <<inputVars, orchVars, chunks, queueVars, outQ, wdata, werr,
                 werrCall, retried, writerVars, callVars>>

\* mutant: the retry surfaces the error of the first attempt
retry_error_first(call) == 1

\* backon's Retry: when the backoff is exhausted the error of the call that
\* just failed is returned
retry_error(call) == call

\* mutant: the progress is advanced by the configured chunk size
data_len_chunk_size(data) == chunk_size

\* let data_len = data.len() as u64;
data_len(data) == Len(data)

\* one client.get_range(chunk.start, chunk.end).await under .retry(...):
\* on Err the backoff decides between another attempt and giving up;
\* on Ok progress.increment(data_len) is called
WorkerFetch(w) ==
  /\ wpc[w] = "fetch"
  /\ wcalls' = [wcalls EXCEPT ![w] = @ + 1]
  /\ \E ok \in BOOLEAN :
       IF ok
         THEN /\ \E data \in range_responses(wchunk[w].start, wchunk[w].end) :
                   /\ wdata' = [wdata EXCEPT ![w] = data]
                   /\ position' = position + data_len(data)
              /\ wpc' = [wpc EXCEPT ![w] = "send"]
              /\ incrementCalls' = incrementCalls + 1
              /\ UNCHANGED <<werr, werrCall, retried>>
         ELSE /\ UNCHANGED <<incrementCalls, position, wdata>>
              /\ IF backoff_next(wcalls[w])
                   THEN /\ retried' = TRUE
                        /\ UNCHANGED <<wpc, werr, werrCall>>
                   ELSE /\ wpc' = [wpc EXCEPT ![w] = "err"]
                        /\ werr' = [werr EXCEPT ![w] = "FetchErr"]
                        /\ werrCall' = [werrCall EXCEPT ![w] = retry_error(wcalls[w] + 1)]
                        /\ UNCHANGED retried
  /\ UNCHANGED <<inputVars, orchVars, chunks, queueVars, chunkQ, outQ, wchunk,
                 dequeued, writerVars, headCalls, getFullCalls, finishCalls>>

\* mutant: the DownloadedChunk is numbered by the worker, not by the chunk
DownloadedChunk_by_worker(w) == [index |-> w - 1, data |-> wdata[w]]

\* DownloadedChunk { index: chunk.index, data }
DownloadedChunk(w) == [index |-> wchunk[w].index, data |-> wdata[w]]

\* output_tx.send_async(DownloadedChunk { index, data }).await
WorkerSend(w) ==
  /\ wpc[w] = "send"
  /\ IF output_receivers = 0
       THEN /\ wpc' = [wpc EXCEPT ![w] = "err"]
            /\ werr' = [werr EXCEPT ![w] = "SendErr"]
            /\ UNCHANGED <<outQ, wchunk, wcalls, wdata>>
       ELSE /\ Len(outQ) < output_capacity
            /\ outQ' = Append(outQ, DownloadedChunk(w))
            /\ wpc' = [wpc EXCEPT ![w] = "recv"]
            /\ wchunk' = [wchunk EXCEPT ![w] = NoChunk]
            /\ wcalls' = [wcalls EXCEPT ![w] = 0]
            /\ wdata' = [wdata EXCEPT ![w] = <<>>]
            /\ UNCHANGED werr
  /\ UNCHANGED <<inputVars, orchVars, chunks, queueVars, chunkQ, retried,
                 werrCall, dequeued, writerVars, callVars>>

\* -------------------------------------------- Stage 3: ordered_output_writer
\* while let Ok(chunk) = rx.recv_async().await { buffer.insert(chunk.index, chunk);
WriterRecv ==
  /\ spc = "recv"
  /\ IF outQ # <<>>
       THEN /\ buffer' = {b \in buffer : b.index # Head(outQ).index} \cup {Head(outQ)}
            /\ outQ' = Tail(outQ)
            /\ spc' = "drain"
       ELSE /\ output_senders = 0
            /\ spc' = "flush"
            /\ UNCHANGED <<buffer, outQ>>
  /\ UNCHANGED <<inputVars, orchVars, chunks, queueVars, chunkQ, workerVars,
                 next_expected, sink, callVars>>

\* mutant: the writer takes the lowest buffered index, whatever next_expected is
buffer_pop_first == {b \in buffer : \A c \in buffer : b.index <= c.index}

\* the chunk buffer.remove(&next_expected) yields
buffer_remove == {b \in buffer : b.index = next_expected}

\* mutant: the writer never returns from inside its loop
all_written_unchecked(n) == FALSE

\* if next_expected == total_chunks { writer.flush().await?; return Ok(writer); }
all_written(n) == n = total_chunks

\* mutant: the writer writes one chunk per received chunk (if, not while)
after_write_once(n) == IF all_written(n) THEN "flush" ELSE "recv"

\* after a write the writer returns if all is written, else it looks for
\* the next chunk in the buffer again (while let Some(..) = buffer.remove(..))
after_write(n) == IF all_written(n) THEN "flush" ELSE "drain"

\* while let Some(chunk) = buffer.remove(&next_expected) {
\*   writer.write_all(&chunk.data).await?; next_expected += 1; ... }
WriterDrain ==
  /\ spc = "drain"
  /\ IF buffer_remove = {}
       THEN /\ spc' = "recv"
            /\ UNCHANGED <<buffer, next_expected, sink>>
       ELSE \E chunk \in buffer_remove :
              /\ buffer' = buffer \ {chunk}
              /\ \E ok \in BOOLEAN :
                   IF ok
                     THEN /\ sink' = sink \o chunk.data
                          /\ next_expected' = next_expected + 1
                          /\ spc' = after_write(next_expected + 1)
                     ELSE /\ spc' = "err"
                          /\ UNCHANGED <<next_expected, sink>>
  /\ UNCHANGED <<inputVars, orchVars, chunks, queueVars, chunkQ, outQ,
                 workerVars, callVars>>

\* writer.flush().await?; Ok(writer)
WriterFlush ==
  /\ spc = "flush"
  /\ \E ok \in BOOLEAN : spc' = IF ok THEN "ok" ELSE "err"
  /\ UNCHANGED <<inputVars, orchVars, chunks, queueVars, chunkQ, outQ,
                 workerVars, buffer, next_expected, sink, callVars>>

\* ------------------------------------------------------------ specification
Orchestrator ==
  \/ Download
  \/ StartChunked
  \/ JoinQueue
  \/ JoinWorker
  \/ JoinWriter
  \/ GetFull
  \/ SingleWrite
  \/ SingleFlush

Worker(w) == WorkerRecv(w) \/ WorkerFetch(w) \/ WorkerSend(w)

Writer == WriterRecv \/ WriterDrain \/ WriterFlush

Next ==
  \/ Download
  \/ StartChunked
  \/ JoinQueue
  \/ JoinWorker
  \/ JoinWriter
  \/ GetFull
  \/ SingleWrite
  \/ SingleFlush
  \/ QueueChunks
  \/ \E w \in Workers : WorkerRecv(w)
  \/ \E w \in Workers : WorkerFetch(w)
  \/ \E w \in Workers : WorkerSend(w)
  \/ WriterRecv
  \/ WriterDrain
  \/ WriterFlush

Spec == Init /\ [][Next]_vars

\* tokio polls a task that can make progress, and every network or sink
\* call returns: as long as some step is possible, a step is taken
Fairness == WF_vars(Next)

FairSpec == Spec /\ Fairness

\* the chunk planner on its own: create_chunks applied to the inputs
PlannerInit ==
  InitOver(0..PlanMaxLength, 1..PlanMaxChunkSize, {1}, {TRUE}, {TRUE})

PlanChunks ==
  /\ opc = "head"
  /\ opc' = "planned"
  /\ chunks' = create_chunks(content_length, chunk_size)
  /\ UNCHANGED <<inputVars, result, jidx, orch_chunk_rx, orch_output_tx,
                 queueVars, chunkQ, outQ, workerVars, writerVars, callVars>>

PlannerSpec == PlannerInit /\ [][PlanChunks]_vars

\* downloads of one object of many one-byte chunks by two workers, so that
\* more chunks than the output queue holds can wait behind chunk 0
ReorderInit == InitOver({ReorderLength}, {1}, {2}, BOOLEAN, {TRUE})

ReorderSpec == ReorderInit /\ [][Next]_vars

\* downloads from a DownloadClient that may or may not answer get_range
\* with exactly the requested range
LenientInit ==
  InitOver(0..LenientMax, 1..LenientMax, 1..LenientMax, BOOLEAN, BOOLEAN)

LenientSpec == LenientInit /\ [][Next]_vars

\* ================================================================== claims
\* the data of chunks 0..n-1 (chunks[1..n]) concatenated in index order
RECURSIVE ChunkData(_)
ChunkData(n) ==
  IF n = 0 THEN <<>>
  ELSE ChunkData(n - 1) \o get_range(chunks[n].start, chunks[n].end)

\* the bytes of the object, offsets 0..content_length-1
ObjectBytes == [i \in 1..content_length |-> i - 1]

HeadOk == opc # "head" /\ result # "HeadErr"
ChunkedRun == HeadOk /\ supports_range /\ content_length >= 1
StagesNotStarted ==
  /\ qpc = "idle"
  /\ Workers = {}
  /\ spc = "idle"
  /\ chunks = <<>>
  /\ chunkQ = <<>>
  /\ outQ = <<>>
  /\ ~orch_chunk_rx
  /\ ~orch_output_tx

\* C1: whatever the order in which DownloadedChunks reach the writer, the
\* sink holds at every moment exactly the data of chunks 0..next_expected-1
\* in index order (no chunk early, none twice), and the buffer never holds a
\* chunk already written.
C1_SinkIsOrderedPrefix ==
  spc # "idle" =>
    /\ next_expected <= total_chunks
    /\ sink = ChunkData(next_expected)
    /\ \A b \in buffer : b.index >= next_expected

\* C1 witness: chunk 0 is written while a chunk beyond next_expected waits
\* in the buffer, i.e. the chunks arrived out of order.
C1_Witness ==
  /\ spc = "recv"
  /\ next_expected >= 1
  /\ \E b \in buffer : b.index > next_expected

\* C2: when the chunked download returns success, the writer has written
\* all total_chunks chunks and the sink holds the data of every chunk once,
\* in index order, which is the original object.
C2_SuccessIsComplete ==
  (opc = "done" /\ result = "Ok" /\ ChunkedRun) =>
    /\ next_expected = total_chunks
    /\ sink = ChunkData(total_chunks)
    /\ sink = ObjectBytes

\* C2 witness: a successful chunked download of at least 3 chunks in which
\* some fetch failed and was retried.
C2_Witness ==
  /\ opc = "done"
  /\ result = "Ok"
  /\ ChunkedRun
  /\ total_chunks >= 3
  /\ retried

\* C3: create_chunks returns indices 0,1,2,..., chunk[0].start = 0,
\* chunk[i].end + 1 = chunk[i+1].start, start <= end, chunk[last].end =
\* content_length - 1, and the empty list for content_length = 0.
C3_ChunksPartition ==
  LET cs == create_chunks(content_length, chunk_size) IN
    /\ (content_length = 0 <=> cs = <<>>)
    /\ \A i \in 1..Len(cs) :
         /\ cs[i].index = i - 1
         /\ cs[i].start <= cs[i].end
         /\ i < Len(cs) => cs[i].end + 1 = cs[i + 1].start
    /\ cs # <<>> => cs[1].start = 0 /\ cs[Len(cs)].end = content_length - 1
    /\ chunks \in {<<>>, cs}

\* C3 witness: create_chunks returned at least three chunks, the last one
\* shorter than chunk_size.
C3_Witness ==
  /\ Len(chunks) >= 3
  /\ chunks = create_chunks(content_length, chunk_size)
  /\ chunks[Len(chunks)].end - chunks[Len(chunks)].start + 1 < chunk_size

FetchExhausted == \E w \in Workers : werr[w] = "FetchErr"
SinkFailed == spc = "err"
StagesTerminated ==
  /\ qpc \in {"ok", "err"}
  /\ \A w \in Workers : wpc[w] \in {"ok", "err"}
ReturnedError == opc = "done" /\ result \notin {"none", "Ok"}

\* C4: once some worker has exhausted its retries on a chunk, download
\* eventually returns an error and Stage 1 and every worker terminate
\* (none stays blocked on a queue push or pop).
C4_FetchFailureUnwinds == FetchExhausted ~> (ReturnedError /\ StagesTerminated)

\* C5: on the chunked path, unless HEAD fails, a fetch exhausts its retries
\* or a sink write or flush fails, Stage 1, every worker and the writer all
\* terminate and download returns success.
C5_SuccessTerminates ==
  (supports_range /\ content_length >= 1) =>
    <>(\/ result = "HeadErr"
       \/ FetchExhausted
       \/ SinkFailed
       \/ /\ opc = "done"
          /\ result = "Ok"
          /\ qpc = "ok"
          /\ Workers # {}
          /\ \A w \in Workers : wpc[w] = "ok"
          /\ spc = "ok")

\* C5 witness: a successful run with more chunks than both queue capacities
\* in which every stage has terminated.
C5_Witness ==
  /\ opc = "done"
  /\ result = "Ok"
  /\ total_chunks > output_capacity
  /\ qpc = "ok"
  /\ \A w \in Workers : wpc[w] = "ok"
  /\ spc = "ok"

\* C6: once a sink write has failed in ordered_output_writer, download
\* eventually returns an error (never success, never blocked forever).
C6_SinkFailureUnwinds == SinkFailed ~> ReturnedError

\* C7: for each chunk get_range is invoked at most 3 times in total; no
\* chunk is ever fetched a 4th time.
C7_AtMostThreeCalls == \A w \in Workers : wcalls[w] <= 3

\* What the retry policy of download_worker guarantees instead of C7:
\* get_range is invoked at most 4 times for a chunk (one call and 3
\* retries); a worker gives up exactly when the 4th call failed, and a chunk
\* is held by one worker at a time and is never back in the queue.
C7_AtMostFourCalls ==
  /\ \A w \in Workers :
       /\ wcalls[w] <= 4
       /\ werr[w] = "FetchErr" => wcalls[w] = 4
       /\ wchunk[w] # NoChunk =>
            /\ \A v \in Workers \ {w} : wchunk[v] # wchunk[w]
            /\ \A i \in 1..Len(chunkQ) : chunkQ[i] # wchunk[w]

\* The 4th get_range call for a chunk was made and succeeded.
FourthCallSucceeded ==
  \E w \in Workers : wpc[w] = "send" /\ wcalls[w] = 4

\* C8: a worker never gives up on a chunk after fewer than 3 failed
\* attempts, and a chunked download in which no chunk exhausted its retries
\* and no sink operation failed returns success with the object's bytes in
\* the sink.
C8_RetriedFetchSucceeds ==
  /\ \A w \in Workers : werr[w] = "FetchErr" => wcalls[w] >= 3
  /\ (opc = "done" /\ ChunkedRun /\ ~FetchExhausted /\ ~SinkFailed) =>
       /\ result = "Ok"
       /\ next_expected = total_chunks
       /\ sink = ObjectBytes

\* C8 witness: a download in which a get_range call failed and was retried
\* returned success with the object's bytes in the sink.
C8_Witness ==
  /\ retried
  /\ opc = "done"
  /\ result = "Ok"
  /\ sink = ObjectBytes
  /\ ~FetchExhausted

\* C9: with content_length = 0 nothing is ever written, get_full is never
\* called, no queue, worker (hence no get_range call) or writer is started,
\* and download returns success once HEAD has succeeded.
C9_EmptyObject ==
  content_length = 0 =>
    /\ sink = <<>>
    /\ getFullCalls = 0
    /\ StagesNotStarted
    /\ ~retried
    /\ (opc = "done" /\ result # "HeadErr") => result = "Ok"

\* C9 witness: download of an empty object that supports ranges returned.
C9_Witness ==
  /\ content_length = 0
  /\ supports_range
  /\ opc = "done"
  /\ result = "Ok"

\* C10 as stated: without range support download makes exactly one
\* get_full call, starts no stage and writes the returned bytes.
C10_ExactlyOneGetFull ==
  (~supports_range /\ opc = "done" /\ result # "HeadErr") =>
    /\ getFullCalls = 1
    /\ StagesNotStarted
    /\ result = "Ok" => sink = ObjectBytes

\* C10 amended: without range support no stage is ever started and get_full
\* is called at most once; for content_length > 0 it has been called exactly
\* once when download returns, and a successful return has written the
\* returned bytes; for content_length = 0 it is never called.
C10_SingleStream ==
  ~supports_range =>
    /\ StagesNotStarted
    /\ getFullCalls <= 1
    /\ content_length = 0 => getFullCalls = 0
    /\ (opc = "done" /\ result # "HeadErr" /\ content_length > 0) =>
         /\ getFullCalls = 1
         /\ result = "Ok" => sink = ObjectBytes
         /\ result = "GetFullErr" => sink = <<>>

\* C10 witness: a non-empty object without range support was downloaded
\* with one get_full call.
C10_Witness ==
  /\ ~supports_range
  /\ content_length > 0
  /\ opc = "done"
  /\ result = "Ok"
  /\ getFullCalls = 1
  /\ sink = ObjectBytes

\* C11: head() is invoked exactly once per download (never a second time),
\* and when it fails download has returned that error: no get_full and no
\* get_range call is made, no stage is started and the sink stays empty.
C11_HeadOnceAndFatal ==
  /\ headCalls = (IF opc = "head" THEN 0 ELSE 1)
  /\ result = "HeadErr" =>
       /\ opc = "done"
       /\ getFullCalls = 0
       /\ StagesNotStarted
       /\ wcalls = <<>>
       /\ ~retried
       /\ sink = <<>>

\* C11 witness: head() failed for a non-empty object and download returned
\* that error after its single head() call.
C11_Witness ==
  /\ opc = "done"
  /\ result = "HeadErr"
  /\ headCalls = 1
  /\ content_length > 0

DownloadChunkedReturns ==
  opc \in {"join_queue", "join_workers", "join_writer"} /\ opc' = "done"
FailedWorkers == {w \in Workers : wpc[w] = "err"}
FirstFailedWorker == CHOOSE w \in FailedWorkers : \A v \in FailedWorkers : w <= v

\* C12: download_chunked awaits Stage 1 first, the workers next (in handle
\* order) and Stage 3 last, so when it returns the result is Stage 1's error
\* if Stage 1 failed, else the error of the first failed worker if one
\* failed (even when the writer failed too), else the writer's error, else Ok.
C12_JoinPriority ==
  [][/\ opc \in {"join_workers", "join_writer"} => qpc = "ok"
     /\ opc = "join_workers" => \A w \in 1..(jidx - 1) : wpc[w] = "ok"
     /\ opc = "join_writer" => \A w \in Workers : wpc[w] = "ok"
     /\ DownloadChunkedReturns =>
          result' = IF qpc = "err" THEN "QueueErr"
                    ELSE IF FailedWorkers # {} THEN werr[FirstFailedWorker]
                    ELSE IF spc = "err" THEN "IoErr"
                    ELSE "Ok"]_vars

\* C12 witness: the writer and a worker both failed and download_chunked
\* returned the worker's error.
C12_Witness ==
  /\ opc = "done"
  /\ spc = "err"
  /\ qpc = "ok"
  /\ FailedWorkers # {}
  /\ result = werr[FirstFailedWorker]
  /\ result \in {"FetchErr", "SendErr"}

\* the chunk indices whose fetch has succeeded: received by a worker that is
\* neither still fetching the chunk nor gave up on it
FetchedChunks ==
  {i \in DOMAIN dequeued :
     /\ dequeued[i] >= 1
     /\ \A w \in Workers :
          wchunk[w].index = i => wpc[w] # "fetch" /\ werr[w] # "FetchErr"}

ChunkLen(i) == chunks[i + 1].end - chunks[i + 1].start + 1

RECURSIVE SumLen(_)
SumLen(S) ==
  IF S = {} THEN 0
  ELSE LET i == CHOOSE x \in S : TRUE IN ChunkLen(i) + SumLen(S \ {i})

\* increment has been called once per fetched chunk, with its data length
IncrementsMatchFetches ==
  supports_range =>
    /\ incrementCalls = Cardinality(FetchedChunks)
    /\ position = SumLen(FetchedChunks)
    /\ (opc = "done" /\ result = "Ok") => position = content_length

\* C13 as stated: increment is called once per chunk whose fetch succeeded,
\* with that chunk's data length, never for a chunk whose retries were
\* exhausted; a successful chunked download has incremented content_length
\* bytes in total and a successful single-stream download has made exactly
\* one increment call.
C13_IncrementPerFetch ==
  /\ IncrementsMatchFetches
  /\ (~supports_range /\ opc = "done" /\ result = "Ok") => incrementCalls = 1

\* C13 amended: as C13, but a successful single-stream download has made
\* exactly one increment call, of content_length bytes, only when the object
\* is not empty; for an empty object increment is never called.
C13_ProgressIncrements ==
  /\ IncrementsMatchFetches
  /\ (~supports_range /\ opc = "done" /\ result = "Ok" /\ content_length > 0) =>
       incrementCalls = 1 /\ position = content_length
  /\ ~supports_range => incrementCalls <= 1
  /\ content_length = 0 => incrementCalls = 0 /\ position = 0

\* C13 witness: a worker gave up on a chunk after another chunk, shorter
\* than chunk_size, had been fetched, and increment was called for the
\* fetched chunk only.
C13_Witness ==
  /\ FetchExhausted
  /\ incrementCalls = 1
  /\ position = 1
  /\ chunk_size = 2
  /\ Cardinality({i \in DOMAIN dequeued : dequeued[i] = 1}) = 2

\* C14: finish() has been called exactly once when download has returned
\* success (chunked, single-stream or empty object), with all bytes of the
\* object in the sink, and has not been called at any other moment, in
\* particular never when download returns an error.
C14_FinishOnSuccess ==
  /\ finishCalls = (IF opc = "done" /\ result = "Ok" THEN 1 ELSE 0)
  /\ finishCalls >= 1 => sink = ObjectBytes

\* What download guarantees instead of C14: finish() is called exactly once
\* on a successful download of a non-empty object, after all bytes were
\* written, never on an error and never for an empty object.
C14_FinishOnNonEmptySuccess ==
  /\ finishCalls =
       (IF opc = "done" /\ result = "Ok" /\ content_length > 0 THEN 1 ELSE 0)
  /\ finishCalls >= 1 => sink = ObjectBytes

\* download of an empty object returned success and finish() was not called
EmptySuccessNotFinished ==
  /\ opc = "done"
  /\ result = "Ok"
  /\ content_length = 0
  /\ finishCalls = 0

\* a fatal error has occurred in a stage: a worker exhausted its retries or
\* the writer failed on a sink write or flush
FatalError == FetchExhausted \/ SinkFailed

\* C15: once a fatal error has occurred, no step dequeues a further chunk,
\* none makes a further get_range call and Stage 1 pushes no further chunk.
C15_StopAfterFatal ==
  [][FatalError =>
       /\ dequeued' = dequeued
       /\ \A w \in Workers : wcalls'[w] <= wcalls[w]
       /\ qidx' = qidx]_vars

\* C16: when the writer failed on the sink and no get_range call has failed
\* at all, the error download_chunked has returned is the sink's I/O error,
\* not a worker's error from a push onto the closed output queue.
C16_SinkErrorReported ==
  (opc = "done" /\ ChunkedRun /\ SinkFailed /\ ~retried /\ ~FetchExhausted) =>
    result = "IoErr"

AllWorkersExited == Workers # {} /\ \A w \in Workers : wpc[w] \in {"ok", "err"}

\* C17: whenever every worker has exited while queue_chunks still has chunks
\* to push, queue_chunks eventually returns its DownloadFailed error (it
\* neither stays blocked on the push nor completes it).
C17_QueueFailsWithoutWorkers == (AllWorkersExited /\ qpc = "run") ~> (qpc = "err")

\* C18: the writer returns success only after it has written all
\* total_chunks chunks, also when the output queue is closed early.
C18_WriterSuccessIsComplete == spc = "ok" => next_expected = total_chunks

\* What ordered_output_writer guarantees instead of C18: it leaves its loop
\* (and returns success) with next_expected < total_chunks only when the
\* output queue is closed and empty, which happens only after
\* download_chunked has returned an error; whenever download returns success
\* the writer has returned success with all total_chunks chunks written.
C18_WriterIncompleteOnlyAfterError ==
  /\ (spc \in {"flush", "ok"} /\ next_expected < total_chunks) =>
       /\ output_senders = 0
       /\ outQ = <<>>
       /\ opc = "done"
       /\ result \in {"FetchErr", "SendErr", "QueueErr"}
  /\ (opc = "done" /\ result = "Ok" /\ ChunkedRun) =>
       spc = "ok" /\ next_expected = total_chunks

\* The output queue was closed early and the writer returned success after
\* writing only a part of the chunks.
WriterOkIncomplete ==
  /\ spc = "ok"
  /\ next_expected >= 1
  /\ next_expected < total_chunks
  /\ result = "FetchErr"

\* C19: the writer never waits on the output queue once next_expected has
\* reached total_chunks: as soon as the last chunk is written it goes on to
\* flush the sink and return, whether or not senders are still alive.
C19_WriterFinishesEarly ==
  spc \in {"recv", "drain"} => next_expected < total_chunks

\* C19 witness: the writer has returned success with all chunks written
\* while download_chunked and a worker still hold their output senders.
C19_Witness ==
  /\ spc = "ok"
  /\ next_expected = total_chunks
  /\ total_chunks >= 2
  /\ orch_output_tx
  /\ \E w \in Workers : WorkerAlive(w)

\* the DownloadedChunks with index i that exist or have been written
Produced(i) ==
  Cardinality({k \in 1..Len(outQ) : outQ[k].index = i})
  + Cardinality({b \in buffer : b.index = i})
  + (IF i < next_expected THEN 1 ELSE 0)

\* C20: every chunk index is dequeued at most once, so no two workers ever
\* hold (fetch) the same chunk and at most one DownloadedChunk per index is
\* produced; when the chunked download returns success every index
\* 0..total_chunks-1 has been dequeued exactly once and has produced exactly
\* one DownloadedChunk, which was written.
C20_DequeuedOnce ==
  /\ \A i \in DOMAIN dequeued :
       /\ dequeued[i] <= 1
       /\ Produced(i) <= dequeued[i]
  /\ \A w \in Workers :
       wchunk[w] # NoChunk =>
         /\ dequeued[wchunk[w].index] = 1
         /\ \A v \in Workers \ {w} : wchunk[v].index # wchunk[w].index
  /\ (opc = "done" /\ result = "Ok" /\ ChunkedRun) =>
       /\ DOMAIN dequeued = 0..(total_chunks - 1)
       /\ \A i \in DOMAIN dequeued : dequeued[i] = 1 /\ Produced(i) = 1
       /\ outQ = <<>>
       /\ buffer = {}

\* C20 witness: two workers shared a download of at least three chunks that
\* returned success, each index dequeued once.
C20_Witness ==
  /\ opc = "done"
  /\ result = "Ok"
  /\ concurrency = 2
  /\ total_chunks >= 3
  /\ \A i \in 0..(total_chunks - 1) : dequeued[i] = 1

\* C21: the chunk queue never holds more than concurrency chunks and the
\* output queue never more than 2 * concurrency DownloadedChunks; while its
\* queue is full Stage 1 (a worker) does not push, and the queue grows again
\* only after a consumer has taken an item.
C21_QueuesBounded ==
  [][/\ Len(chunkQ) <= concurrency /\ Len(chunkQ') <= concurrency'
     /\ Len(outQ) <= 2 * concurrency /\ Len(outQ') <= 2 * concurrency'
     /\ Len(chunkQ) = concurrency => (qidx' = qidx /\ Len(chunkQ') <= Len(chunkQ))
     /\ Len(outQ) = 2 * concurrency => Len(outQ') <= Len(outQ)]_vars

\* C21 witness: the output queue is full, a worker is suspended on its push
\* and the chunk queue is full as well.
C21_Witness ==
  /\ Workers # {}
  /\ Len(outQ) = 2 * concurrency
  /\ \E w \in Workers : wpc[w] = "send"
  /\ spc \in {"recv", "drain"}
  /\ Len(chunkQ) = concurrency

FetchingChunk0 == \E w \in Workers : wpc[w] = "fetch" /\ wchunk[w].index = 0

\* C22: the reassembly buffer is bounded by total_chunks, not by the queue
\* capacities: while chunk 0 is still being fetched the writer has written
\* nothing and is still receiving, every chunk it took from the output queue
\* stays in the buffer, and the buffer can hold all other total_chunks - 1
\* chunks.
C22_BufferHoldsLaterChunks ==
  /\ Cardinality(buffer) <= total_chunks - next_expected
  /\ FetchingChunk0 =>
       /\ next_expected = 0
       /\ sink = <<>>
       /\ spc \in {"recv", "drain"}
       /\ Cardinality(buffer) <= total_chunks - 1
       /\ \A i \in DOMAIN dequeued : Produced(i) <= 1

\* C22 witness: with two workers chunk 0 is still being fetched while the
\* buffer holds all other chunks, more than the output queue can hold.
C22_Witness ==
  /\ concurrency >= 2
  /\ FetchingChunk0
  /\ Cardinality(buffer) = total_chunks - 1
  /\ Cardinality(buffer) > 2 * concurrency

\* C23: a worker that gave up on a chunk returned the error of the last
\* get_range call it made; the step in which it gives up pushes nothing and
\* increments no progress, no DownloadedChunk for that chunk ever exists,
\* and from then on the worker stays terminated holding that chunk: it
\* dequeues nothing and calls get_range no more.
C23_ExhaustedFetch ==
  [][\A w \in Workers :
       /\ (werr[w] # "FetchErr" /\ werr'[w] = "FetchErr") =>
            /\ werrCall'[w] = wcalls'[w]
            /\ UNCHANGED <<outQ, incrementCalls, position, dequeued>>
       /\ werr[w] = "FetchErr" =>
            /\ werrCall[w] = wcalls[w]
            /\ Produced(wchunk[w].index) = 0
            /\ wchunk[w].index \notin FetchedChunks
            /\ wpc'[w] = "err"
            /\ werr'[w] = "FetchErr"
            /\ wchunk'[w] = wchunk[w]
            /\ wcalls'[w] = wcalls[w]]_vars

\* C23 witness: a worker gave up on a chunk other than the first one after
\* retrying it, and download returned its error.
C23_Witness ==
  /\ opc = "done"
  /\ result = "FetchErr"
  /\ \E w \in Workers :
       /\ werr[w] = "FetchErr"
       /\ wchunk[w].index >= 1
       /\ werrCall[w] = wcalls[w]
       /\ wcalls[w] > 1

\* C24: get_full is called at most once per download; when it fails,
\* download has returned that error after that single call, with nothing
\* written to the sink, no progress increment and no finish() call.
C24_GetFullFailFast ==
  /\ getFullCalls <= 1
  /\ opc \in {"single_write", "single_flush"} => getFullCalls = 1
  /\ result = "GetFullErr" =>
       /\ opc = "done"
       /\ ~supports_range
       /\ getFullCalls = 1
       /\ sink = <<>>
       /\ incrementCalls = 0
       /\ finishCalls = 0

\* C24 witness: get_full failed for a non-empty object without range
\* support and download returned its error.
C24_Witness ==
  /\ opc = "done"
  /\ result = "GetFullErr"
  /\ content_length > 0
  /\ getFullCalls = 1
  /\ sink = <<>>

\* C25: the chunk queue holds consecutive indices in increasing order, the
\* last one being the chunk queue_chunks pushed last, and chunk i+1 is never
\* dequeued before chunk i has been dequeued.
C25_DequeueInOrder ==
  /\ \A k \in 1..Len(chunkQ) :
       chunkQ[k].index = (qidx - 1 - Len(chunkQ)) + (k - 1)
  /\ \A i \in DOMAIN dequeued :
       (i >= 1 /\ dequeued[i] >= 1) => dequeued[i - 1] >= 1

\* C25 witness: chunks were dequeued in index order, yet a chunk with a
\* higher index was pushed to the output queue before one with a lower index.
C25_Witness ==
  /\ \A i \in DOMAIN dequeued : dequeued[i] = 1
  /\ \E k, l \in 1..Len(outQ) : k < l /\ outQ[k].index > outQ[l].index

\* C26: for content_length >= 1 create_chunks returns exactly
\* ceil(content_length / chunk_size) chunks, each of length chunk_size except
\* the last, whose length is between 1 and chunk_size; for content_length <=
\* chunk_size it returns the single chunk [0, content_length - 1].
C26_ChunkCount ==
  LET cs == create_chunks(content_length, chunk_size)
      n == Len(cs)
      length(i) == cs[i].end - cs[i].start + 1
  IN content_length >= 1 =>
       /\ n = (content_length + chunk_size - 1) \div chunk_size
       /\ \A i \in 1..(n - 1) : length(i) = chunk_size
       /\ length(n) \in 1..chunk_size
       /\ content_length <= chunk_size =>
            cs = <<[index |-> 0, start |-> 0, end |-> content_length - 1]>>
       /\ chunks \in {<<>>, cs}

\* C26 witness: create_chunks returned two chunks, a full one and a shorter
\* remainder.
C26_Witness ==
  /\ opc = "planned"
  /\ Len(chunks) = 2
  /\ chunks[1].end - chunks[1].start + 1 = chunk_size
  /\ chunks[2].end - chunks[2].start + 1 < chunk_size
  /\ chunk_size >= 4

WaitingBufferAhead ==
  spc = "recv" =>
    \A b \in buffer : next_expected < b.index /\ b.index < total_chunks

\* C28: whenever the writer is waiting to receive, every buffered index is
\* strictly greater than next_expected and less than total_chunks; and
\* next_expected never decreases and never exceeds total_chunks.
C28_WriterCursor ==
  [][/\ WaitingBufferAhead
     /\ WaitingBufferAhead'
     /\ next_expected <= next_expected'
     /\ next_expected' <= next_expected + 1
     /\ next_expected <= total_chunks
     /\ next_expected' <= total_chunks']_vars

\* C28 witness: the writer waits for chunk 0 with at least two later chunks
\* in its buffer.
C28_Witness ==
  /\ spc = "recv"
  /\ next_expected = 0
  /\ Cardinality(buffer) >= 2

\* the DownloadedChunks in flight: held by a worker about to push, in the
\* output queue, or in the writer's buffer
InFlight ==
  {DownloadedChunk(w) : w \in {v \in Workers : wpc[v] = "send"}}
  \cup {outQ[k] : k \in 1..Len(outQ)}
  \cup buffer

RangeLen(i) == chunks[i + 1].end - chunks[i + 1].start + 1

\* C27 as stated: every DownloadedChunk carries the index of a dequeued
\* chunk and data of length exactly end - start + 1, whatever get_range
\* returned, and a successful download has written exactly content_length
\* bytes.
C27_ExactLength ==
  /\ \A d \in InFlight :
       /\ d.index \in DOMAIN dequeued
       /\ dequeued[d.index] = 1
       /\ Len(d.data) = RangeLen(d.index)
  /\ (opc = "done" /\ result = "Ok" /\ ChunkedRun) => Len(sink) = content_length

\* C27 amended: every DownloadedChunk carries the index of a dequeued chunk
\* and the data get_range returned, unchecked; a successful chunked download
\* has written exactly the bytes that were returned (and counted as
\* progress); when the client answers every get_range with exactly the
\* requested range, each data has length end - start + 1 and a successful
\* download has written exactly content_length bytes.
C27_DataAsReturned ==
  /\ \A d \in InFlight :
       /\ d.index \in DOMAIN dequeued
       /\ dequeued[d.index] = 1
       /\ d.data \in range_responses(chunks[d.index + 1].start,
                                     chunks[d.index + 1].end)
       /\ exact_ranges => Len(d.data) = RangeLen(d.index)
  /\ (opc = "done" /\ result = "Ok" /\ ChunkedRun) =>
       /\ Len(sink) = position
       /\ exact_ranges => Len(sink) = content_length /\ sink = ObjectBytes

\* C27 witness: get_range answered a chunk with a body of another length
\* and the download returned success with a sink that holds the returned
\* bytes, not content_length bytes.
C27_Witness ==
  /\ ~exact_ranges
  /\ opc = "done"
  /\ result = "Ok"
  /\ total_chunks >= 2
  /\ Len(sink) = position
  /\ Len(sink) # content_length

====
